---- MODULE Spec2Model ----
(***************************************************************************)
(* termweb backend (src/backend/src/main.rs): one shared TerminalState     *)
(* (an in-memory tree of Dir/File nodes and a cwd) behind a tokio Mutex,   *)
(* and the shell-like commands run_command executes against it.            *)
(*                                                                         *)
(* Representation.  A Rust char is a one-character string; a String or     *)
(* &str is a sequence of chars, so tokenize, trim, split('/') and join     *)
(* work character by character as in the source.  A diagnostic literal of  *)
(* the source ("mkdir: already exists", ...) is kept as one symbol of the  *)
(* output sequence.  A BTreeMap<String, Node> is a function from names to  *)
(* nodes; its iteration order is the lexicographic order of the keys.      *)
(***************************************************************************)
EXTENDS Integers, Sequences, FiniteSets, TLC

(***************************************************************************)
(* Option and Result                                                       *)
(***************************************************************************)
None == [some |-> FALSE]
Some(v) == [some |-> TRUE, val |-> v]
Ok(v) == [ok |-> TRUE, val |-> v]
Err(message) == [ok |-> FALSE, err |-> message]

\* F applied to the value of e: the argument is evaluated once, before the
\* call, as Rust evaluates it.
Call(F(_), e) == CHOOSE r \in {F(v) : v \in {e}} : TRUE

(***************************************************************************)
(* Characters and strings                                                  *)
(***************************************************************************)
\* char::is_whitespace, on the characters the inputs use
IsWhitespace(ch) == ch \in {" ", "\t", "\n"}

\* The characters in increasing code-point order (String's Ord is bytewise).
CharOrder ==
    << "\t", "\n", " ", "\"", "'", ".", "/", ">",
       "a", "b", "c", "d", "e", "f", "g", "h", "i", "j", "k", "l", "m",
       "n", "o", "p", "q", "r", "s", "t", "u", "v", "w", "x", "y", "z" >>

CharCode(ch) == CHOOSE i \in 1..Len(CharOrder) : CharOrder[i] = ch

\* a < b for Strings: lexicographic on the characters, a proper prefix first
RECURSIVE StrLess(_, _)
StrLess(a, b) ==
    IF b = <<>> THEN FALSE
    ELSE IF a = <<>> THEN TRUE
    ELSE IF Head(a) = Head(b) THEN StrLess(Tail(a), Tail(b))
    ELSE CharCode(Head(a)) < CharCode(Head(b))

\* [T]::join(sep) on strings
RECURSIVE JoinFrom(_, _, _, _)
JoinFrom(parts, sep, i, joined) ==
    IF i > Len(parts) THEN joined
    ELSE Call(LAMBDA next : JoinFrom(parts, sep, i + 1, next),
              IF i = 1 THEN parts[i] ELSE joined \o sep \o parts[i])

Join(parts, sep) ==
    Call(LAMBDA ps : JoinFrom(ps, sep, 1, <<>>), parts)

\* str::trim
RECURSIVE TrimStart(_)
TrimStart(s) ==
    IF s # <<>> /\ IsWhitespace(Head(s)) THEN TrimStart(Tail(s)) ELSE s

RECURSIVE TrimEnd(_)
TrimEnd(s) ==
    IF s # <<>> /\ IsWhitespace(s[Len(s)])
    THEN TrimEnd(SubSeq(s, 1, Len(s) - 1))
    ELSE s

Trim(s) == TrimEnd(TrimStart(s))

\* str::split('/'): the pieces between the separators, empty pieces kept
\* done: the finished pieces; piece: the piece being read
SplitChar(st, ch, sep) ==
    IF ch = sep THEN [done |-> Append(st.done, st.piece), piece |-> <<>>]
    ELSE [done |-> st.done, piece |-> Append(st.piece, ch)]

RECURSIVE SplitFrom(_, _, _, _)
SplitFrom(s, sep, i, st) ==
    IF i > Len(s) THEN Append(st.done, st.piece)
    ELSE Call(LAMBDA next : SplitFrom(s, sep, i + 1, next),
              SplitChar(st, s[i], sep))

Split(s, sep) ==
    Call(LAMBDA str : SplitFrom(str, sep, 1, [done |-> <<>>, piece |-> <<>>]), s)

(***************************************************************************)
(* Node, FileSystem, TerminalState                                         *)
(***************************************************************************)
DirNode(children) == [kind |-> "Dir", children |-> children]
FileNode(content) == [kind |-> "File", content |-> content]

\* BTreeMap::new()
EmptyMap == << >>

\* #[default] Dir, with the default (empty) map
NodeDefault == DirNode(EmptyMap)

FileSystemDefault == [root |-> NodeDefault]

TerminalStateDefault == [fs |-> FileSystemDefault, cwd |-> << >>]

\* BTreeMap::insert / the value written through entry(): the key's old value
\* is replaced
MapInsert(children, name, node) ==
    [n \in (DOMAIN children) \cup {name} |->
        IF n = name THEN node ELSE children[n]]

\* BTreeMap iteration: the keys in increasing order
RECURSIVE SortedKeys(_)
SortedKeys(keys) ==
    IF keys = {} THEN <<>>
    ELSE LET least == CHOOSE k \in keys : \A o \in keys \ {k} : StrLess(k, o)
         IN  << least >> \o SortedKeys(keys \ {least})

(***************************************************************************)
(* FileSystem operations                                                   *)
(***************************************************************************)
\* a traversal that returns the File it cannot descend into
RECURSIVE Walk_StopsAtFile(_, _)
Walk_StopsAtFile(current, path) ==
    IF path = <<>> THEN Some(current)
    ELSE IF current.kind = "Dir"
         THEN IF Head(path) \in DOMAIN current.children
              THEN Walk_StopsAtFile(current.children[Head(path)], Tail(path))
              ELSE None
         ELSE Some(current)

\* the traversal loop of get_node and get_node_mut
RECURSIVE Walk(_, _)
Walk(current, path) ==
    IF path = <<>> THEN Some(current)
    ELSE IF current.kind = "Dir"
         THEN IF Head(path) \in DOMAIN current.children
              THEN Walk(current.children[Head(path)], Tail(path))
              ELSE None
         ELSE None

GetNode(fs, path) == Walk(fs.root, path)

GetNodeMut(fs, path) == Walk(fs.root, path)

\* Assignment through the &mut Node that get_node_mut(path) returned: the
\* tree with the node at path replaced by node.
RECURSIVE WriteNode(_, _, _)
WriteNode(current, path, node) ==
    IF path = <<>> THEN node
    ELSE DirNode(MapInsert(current.children, Head(path),
                           WriteNode(current.children[Head(path)], Tail(path), node)))

SplitParent(path) ==
    [parent |-> SubSeq(path, 1, Len(path) - 1), name |-> path[Len(path)]]

IsDir(fs, path) ==
    LET found == GetNode(fs, path)
    IN  IF ~found.some THEN Err("Path not found")
        ELSE IF found.val.kind = "Dir" THEN Ok(TRUE)
        ELSE Ok(FALSE)

\* a listing whose entries are joined by one space
List_OneSpace(fs, path) ==
    LET found == GetNode(fs, path)
    IN  IF ~found.some THEN Err("Path not found")
        ELSE IF found.val.kind = "Dir"
        THEN LET children == found.val.children
                 names == SortedKeys(DOMAIN children)
                 entries == [i \in 1..Len(names) |->
                               names[i] \o (IF children[names[i]].kind = "Dir"
                                            THEN << "/" >> ELSE << >>)]
             IN  Ok(Join(entries, << " " >>))
        ELSE Ok(IF path = <<>> THEN <<>> ELSE path[Len(path)])

List(fs, path) ==
    LET found == GetNode(fs, path)
    IN  IF ~found.some THEN Err("Path not found")
        ELSE IF found.val.kind = "Dir"
        THEN LET children == found.val.children
                 names == SortedKeys(DOMAIN children)
                 entries == [i \in 1..Len(names) |->
                               names[i] \o (IF children[names[i]].kind = "Dir"
                                            THEN << "/" >> ELSE << >>)]
             IN  Ok(Join(entries, << " ", " " >>))
        ELSE Ok(IF path = <<>> THEN <<>> ELSE path[Len(path)])

\* mkdir without the contains_key test
Mkdir_Overwrite(fs, path) ==
    IF path = <<>> THEN [fs |-> fs, res |-> Err("mkdir: invalid path")]
    ELSE
    LET parent == SplitParent(path).parent
        name == SplitParent(path).name
        parent_node == GetNodeMut(fs, parent)
    IN  IF ~parent_node.some
        THEN [fs |-> fs, res |-> Err("mkdir: parent not found")]
        ELSE IF parent_node.val.kind = "Dir"
        THEN [fs |-> [root |-> WriteNode(fs.root, parent,
                         DirNode(MapInsert(parent_node.val.children, name,
                                           DirNode(EmptyMap))))],
              res |-> Ok(TRUE)]
        ELSE [fs |-> fs, res |-> Err("mkdir: parent is not a directory")]

\* mkdir that creates a missing parent under the root (as mkdir -p would)
Mkdir_Parents(fs, path) ==
    IF path = <<>> THEN [fs |-> fs, res |-> Err("mkdir: invalid path")]
    ELSE
    LET parent == SplitParent(path).parent
        name == SplitParent(path).name
        parent_node == GetNodeMut(fs, parent)
    IN  IF ~parent_node.some
        THEN IF Len(parent) = 1
             THEN [fs |-> [root |-> DirNode(MapInsert(fs.root.children, parent[1],
                              DirNode(MapInsert(EmptyMap, name,
                                                DirNode(EmptyMap)))))],
                   res |-> Ok(TRUE)]
             ELSE [fs |-> fs, res |-> Err("mkdir: parent not found")]
        ELSE IF parent_node.val.kind = "Dir"
        THEN IF name \in DOMAIN parent_node.val.children
             THEN [fs |-> fs, res |-> Err("mkdir: already exists")]
             ELSE [fs |-> [root |-> WriteNode(fs.root, parent,
                              DirNode(MapInsert(parent_node.val.children, name,
                                                DirNode(EmptyMap))))],
                   res |-> Ok(TRUE)]
        ELSE [fs |-> fs, res |-> Err("mkdir: parent is not a directory")]

\* mkdir, touch and write_file give the tree after the call and the Result
Mkdir(fs, path) ==
    IF path = <<>> THEN [fs |-> fs, res |-> Err("mkdir: invalid path")]
    ELSE
    LET parent == SplitParent(path).parent
        name == SplitParent(path).name
        parent_node == GetNodeMut(fs, parent)
    IN  IF ~parent_node.some
        THEN [fs |-> fs, res |-> Err("mkdir: parent not found")]
        ELSE IF parent_node.val.kind = "Dir"
        THEN IF name \in DOMAIN parent_node.val.children
             THEN [fs |-> fs, res |-> Err("mkdir: already exists")]
             ELSE [fs |-> [root |-> WriteNode(fs.root, parent,
                              DirNode(MapInsert(parent_node.val.children, name,
                                                DirNode(EmptyMap))))],
                   res |-> Ok(TRUE)]
        ELSE [fs |-> fs, res |-> Err("mkdir: parent is not a directory")]

\* touch that inserts the empty File whether or not one is there
Touch_Truncates(fs, path) ==
    IF path = <<>> THEN [fs |-> fs, res |-> Err("touch: invalid path")]
    ELSE
    LET parent == SplitParent(path).parent
        name == SplitParent(path).name
        parent_node == GetNodeMut(fs, parent)
    IN  IF ~parent_node.some
        THEN [fs |-> fs, res |-> Err("touch: parent not found")]
        ELSE IF parent_node.val.kind = "Dir"
        THEN IF name \in DOMAIN parent_node.val.children
                /\ parent_node.val.children[name].kind = "Dir"
             THEN [fs |-> fs, res |-> Err("touch: is a directory")]
             ELSE [fs |-> [root |-> WriteNode(fs.root, parent,
                              DirNode(MapInsert(parent_node.val.children, name,
                                                FileNode(<< >>))))],
                   res |-> Ok(TRUE)]
        ELSE [fs |-> fs, res |-> Err("touch: parent is not a directory")]

Touch(fs, path) ==
    IF path = <<>> THEN [fs |-> fs, res |-> Err("touch: invalid path")]
    ELSE
    LET parent == SplitParent(path).parent
        name == SplitParent(path).name
        parent_node == GetNodeMut(fs, parent)
    IN  IF ~parent_node.some
        THEN [fs |-> fs, res |-> Err("touch: parent not found")]
        ELSE IF parent_node.val.kind = "Dir"
        THEN IF name \in DOMAIN parent_node.val.children
             THEN IF parent_node.val.children[name].kind = "Dir"
                  THEN [fs |-> fs, res |-> Err("touch: is a directory")]
                  ELSE [fs |-> fs, res |-> Ok(TRUE)]
             ELSE [fs |-> [root |-> WriteNode(fs.root, parent,
                              DirNode(MapInsert(parent_node.val.children, name,
                                                FileNode(<< >>))))],
                   res |-> Ok(TRUE)]
        ELSE [fs |-> fs, res |-> Err("touch: parent is not a directory")]

ReadFile(fs, path) ==
    LET found == GetNode(fs, path)
    IN  IF ~found.some THEN Err("cat: file not found")
        ELSE IF found.val.kind = "File" THEN Ok(found.val.content)
        ELSE Err("cat: is a directory")

\* an append that always starts a new line
WrittenContent_AlwaysNewline(file_content, content, append) ==
    IF append THEN file_content \o << "\n" >> \o content
    ELSE content

\* the content a File holds after write_file's push/clear/push_str
WrittenContent(file_content, content, append) ==
    IF append /\ file_content # <<>> THEN file_content \o << "\n" >> \o content
    ELSE IF ~append THEN content
    ELSE file_content \o content

WriteFile(fs, path, content, append) ==
    IF path = <<>> THEN [fs |-> fs, res |-> Err("echo: invalid path")]
    ELSE
    LET parent == SplitParent(path).parent
        name == SplitParent(path).name
        parent_node == GetNodeMut(fs, parent)
    IN  IF ~parent_node.some
        THEN [fs |-> fs, res |-> Err("echo: parent not found")]
        ELSE IF parent_node.val.kind = "Dir"
        THEN LET children == parent_node.val.children
                 \* entry(name).or_insert_with(empty File)
                 entry == IF name \in DOMAIN children THEN children[name]
                          ELSE FileNode(<< >>)
             IN  IF entry.kind = "File"
                 THEN [fs |-> [root |-> WriteNode(fs.root, parent,
                                  DirNode(MapInsert(children, name,
                                     FileNode(WrittenContent(entry.content,
                                                             content, append)))))],
                       res |-> Ok(TRUE)]
                 ELSE [fs |-> fs, res |-> Err("echo: target is a directory")]
        ELSE [fs |-> fs, res |-> Err("echo: parent is not a directory")]

(***************************************************************************)
(* tokenize and resolve_path                                               *)
(***************************************************************************)
\* a tokenizer in which either quote character closes a span
TokenizeChar_AnyQuoteCloses(st, ch) ==
    IF st.quote.some
    THEN IF ch \in {"'", "\""}
         THEN [st EXCEPT !.quote = None]
         ELSE [st EXCEPT !.current = Append(@, ch)]
    ELSE IF ch \in {"'", "\""} THEN [st EXCEPT !.quote = Some(ch)]
    ELSE IF IsWhitespace(ch)
    THEN IF st.current # <<>>
         THEN [st EXCEPT !.tokens = Append(@, st.current), !.current = <<>>]
         ELSE st
    ELSE [st EXCEPT !.current = Append(@, ch)]

\* One iteration of the for loop of tokenize, on character ch; st holds
\* tokens, current and quote.
TokenizeChar(st, ch) ==
    IF st.quote.some
    THEN IF ch = st.quote.val
         THEN [st EXCEPT !.quote = None]
         ELSE [st EXCEPT !.current = Append(@, ch)]
    ELSE IF ch \in {"'", "\""} THEN [st EXCEPT !.quote = Some(ch)]
    ELSE IF IsWhitespace(ch)
    THEN IF st.current # <<>>
         THEN [st EXCEPT !.tokens = Append(@, st.current), !.current = <<>>]
         ELSE st
    ELSE [st EXCEPT !.current = Append(@, ch)]

\* a tokenizer that pushes the last token without looking at it
RECURSIVE TokenizeFrom_PushesLast(_, _, _)
TokenizeFrom_PushesLast(input, i, st) ==
    IF i > Len(input)
    THEN IF st.quote.some THEN Err("Unclosed quote")
         ELSE Ok(Append(st.tokens, st.current))
    ELSE Call(LAMBDA next : TokenizeFrom_PushesLast(input, i + 1, next),
              TokenizeChar(st, input[i]))

\* the for loop from character i on, then what follows the loop
RECURSIVE TokenizeFrom(_, _, _)
TokenizeFrom(input, i, st) ==
    IF i > Len(input)
    THEN IF st.quote.some THEN Err("Unclosed quote")
         ELSE Ok(IF st.current # <<>> THEN Append(st.tokens, st.current)
                 ELSE st.tokens)
    ELSE Call(LAMBDA next : TokenizeFrom(input, i + 1, next),
              TokenizeChar(st, input[i]))

Tokenize(input) ==
    Call(LAMBDA str : TokenizeFrom(str, 1, [tokens |-> <<>>, current |-> <<>>,
                                            quote |-> None]),
         input)

\* a resolve_path with no arm for ".."
ResolveSegment_KeepsDotDot(parts, segment) ==
    IF segment = <<>> \/ segment = << "." >> THEN parts
    ELSE Append(parts, segment)

\* one iteration of the for loop of resolve_path
ResolveSegment(parts, segment) ==
    IF segment = <<>> \/ segment = << "." >> THEN parts
    ELSE IF segment = << ".", "." >>
    THEN IF parts = <<>> THEN parts ELSE SubSeq(parts, 1, Len(parts) - 1)
    ELSE Append(parts, segment)

RECURSIVE ResolveFrom(_, _, _)
ResolveFrom(segments, i, parts) ==
    IF i > Len(segments) THEN parts
    ELSE Call(LAMBDA next : ResolveFrom(segments, i + 1, next),
              ResolveSegment(parts, segments[i]))

ResolvePath(cwd, input) ==
    Call(LAMBDA segments :
            ResolveFrom(segments, 1,
                        IF input # <<>> /\ Head(input) = "/" THEN <<>> ELSE cwd),
         Split(input, "/"))

\* the segments joined with no leading '/'
CwdString_NoLeadingSlash(state) == Join(state.cwd, << "/" >>)

CwdString(state) ==
    IF state.cwd = <<>> THEN << "/" >>
    ELSE << "/" >> \o Join(state.cwd, << "/" >>)

(***************************************************************************)
(* execute_command                                                         *)
(***************************************************************************)
KwHelp == << "h", "e", "l", "p" >>
KwPwd == << "p", "w", "d" >>
KwLs == << "l", "s" >>
KwCd == << "c", "d" >>
KwMkdir == << "m", "k", "d", "i", "r" >>
KwTouch == << "t", "o", "u", "c", "h" >>
KwCat == << "c", "a", "t" >>
KwEcho == << "e", "c", "h", "o" >>
KwClear == << "c", "l", "e", "a", "r" >>
Gt == << ">" >>
GtGt == << ">", ">" >>

HelpText ==
    << "Available commands:\n  pwd\n  ls [path]\n  cd [path]\n  mkdir <name>...\n  touch <name>...\n  cat <file>...\n  echo <text> [> file | >> file]\n  clear\n  help" >>

CommandResponse(output, cwd, status, clear) ==
    [output |-> output, cwd |-> cwd, status |-> status, clear |-> clear]

\* The session state and the locals output, status, clear as a match arm
\* leaves them.
Outcome(state, output, status, clear) ==
    [state |-> state, output |-> output, status |-> status, clear |-> clear]

\* tokens[1..]
Args(tokens) == Tail(tokens)

\* the commands whose arm is a for loop over the arguments
IsLoopCommand(tokens) == tokens[1] \in {KwMkdir, KwTouch, KwCat}

\* One iteration of the for loop of the mkdir, touch or cat arm: the tree
\* after it and the Result of the call (Ok carries what cat read).
LoopBody(command, state, arg) ==
    LET path == ResolvePath(state.cwd, arg)
    IN  IF command = KwMkdir THEN Mkdir(state.fs, path)
        ELSE IF command = KwTouch THEN Touch(state.fs, path)
        ELSE [fs |-> state.fs, res |-> ReadFile(state.fs, path)]

MissingOperand(command) ==
    IF command = KwMkdir THEN "mkdir: missing operand"
    ELSE IF command = KwTouch THEN "touch: missing operand"
    ELSE "cat: missing operand"

\* args.iter().position(|token| token == ">" || token == ">>")
RedirectPosition(args) ==
    LET hits == {i \in 1..Len(args) : args[i] = Gt \/ args[i] = GtGt}
    IN  IF hits = {} THEN None
        ELSE Some(CHOOSE i \in hits : \A j \in hits : i <= j)

CmdLs(state, tokens) ==
    LET target == IF Len(tokens) >= 2 THEN tokens[2] ELSE <<>>
        path == IF target = <<>> THEN state.cwd
                ELSE ResolvePath(state.cwd, target)
        listing == List(state.fs, path)
    IN  IF listing.ok THEN Outcome(state, listing.val, "ok", FALSE)
        ELSE Outcome(state, << listing.err >>, "error", FALSE)

\* cd that takes any path that resolves to a node
CmdCd_AnyNode(state, tokens) ==
    LET target == IF Len(tokens) >= 2 THEN tokens[2] ELSE << "/" >>
        path == ResolvePath(state.cwd, target)
        dir == IsDir(state.fs, path)
    IN  IF ~dir.ok THEN Outcome(state, << dir.err >>, "error", FALSE)
        ELSE Outcome([state EXCEPT !.cwd = path], <<>>, "ok", FALSE)

\* cd that moves before it looks
CmdCd_MoveFirst(state, tokens) ==
    LET target == IF Len(tokens) >= 2 THEN tokens[2] ELSE << "/" >>
        path == ResolvePath(state.cwd, target)
        dir == IsDir(state.fs, path)
        moved == [state EXCEPT !.cwd = path]
    IN  IF ~dir.ok THEN Outcome(moved, << dir.err >>, "error", FALSE)
        ELSE IF dir.val THEN Outcome(moved, <<>>, "ok", FALSE)
        ELSE Outcome(moved, << "Not a directory" >>, "error", FALSE)

CmdCd(state, tokens) ==
    LET target == IF Len(tokens) >= 2 THEN tokens[2] ELSE << "/" >>
        path == ResolvePath(state.cwd, target)
        dir == IsDir(state.fs, path)
    IN  IF ~dir.ok THEN Outcome(state, << dir.err >>, "error", FALSE)
        ELSE IF dir.val THEN Outcome([state EXCEPT !.cwd = path], <<>>, "ok", FALSE)
        ELSE Outcome(state, << "Not a directory" >>, "error", FALSE)

CmdEcho(state, tokens) ==
    LET args == Args(tokens)
        pos == RedirectPosition(args)
    IN  IF ~pos.some THEN Outcome(state, Join(args, << " " >>), "ok", FALSE)
        ELSE IF pos.val + 1 > Len(args)
        THEN Outcome(state, << "echo: missing file operand" >>, "error", FALSE)
        ELSE LET content == Join(SubSeq(args, 1, pos.val - 1), << " " >>)
                 target == args[pos.val + 1]
                 path == ResolvePath(state.cwd, target)
                 append == (args[pos.val] = GtGt)
                 written == WriteFile(state.fs, path, content, append)
             IN  IF written.res.ok
                 THEN Outcome([state EXCEPT !.fs = written.fs], <<>>, "ok", FALSE)
                 ELSE Outcome([state EXCEPT !.fs = written.fs],
                              << written.res.err >>, "error", FALSE)

\* a dispatcher whose clear starts the session over
MatchArm_ClearResets(state, tokens) ==
    LET command == tokens[1]
    IN  IF command = KwHelp THEN Outcome(state, HelpText, "ok", FALSE)
        ELSE IF command = KwPwd THEN Outcome(state, CwdString(state), "ok", FALSE)
        ELSE IF command = KwLs THEN CmdLs(state, tokens)
        ELSE IF command = KwCd THEN CmdCd(state, tokens)
        ELSE IF IsLoopCommand(tokens)
        THEN Outcome(state, << MissingOperand(command) >>, "error", FALSE)
        ELSE IF command = KwEcho THEN CmdEcho(state, tokens)
        ELSE IF command = KwClear
        THEN Outcome(TerminalStateDefault, <<>>, "ok", TRUE)
        ELSE Outcome(state, << "Unknown command: " >> \o command, "error", FALSE)

\* The match on tokens[0], for the arms that are not a loop (a loop command
\* with no argument ends here too).
MatchArm(state, tokens) ==
    LET command == tokens[1]
    IN  IF command = KwHelp THEN Outcome(state, HelpText, "ok", FALSE)
        ELSE IF command = KwPwd THEN Outcome(state, CwdString(state), "ok", FALSE)
        ELSE IF command = KwLs THEN CmdLs(state, tokens)
        ELSE IF command = KwCd THEN CmdCd(state, tokens)
        ELSE IF IsLoopCommand(tokens)
        THEN Outcome(state, << MissingOperand(command) >>, "error", FALSE)
        ELSE IF command = KwEcho THEN CmdEcho(state, tokens)
        ELSE IF command = KwClear THEN Outcome(state, <<>>, "ok", TRUE)
        ELSE Outcome(state, << "Unknown command: " >> \o command, "error", FALSE)

\* The locals of execute_command: tokens, the for loop's position i in
\* tokens, cat's parts, and output, status, clear.
Locals(tokens, i, parts, output, status, clear) ==
    [tokens |-> tokens, i |-> i, parts |-> parts,
     output |-> output, status |-> status, clear |-> clear]

LocalsDefault == Locals(<<>>, 0, <<>>, <<>>, "ok", FALSE)

\* A point of execute_command: the session state, the locals, and whether
\* control is inside the for loop of mkdir, touch or cat.
Point(state, loc, looping) ==
    [state |-> state, loc |-> loc, looping |-> looping]

Finished(tokens, outcome) ==
    Point(outcome.state,
          Locals(tokens, 0, <<>>, outcome.output, outcome.status, outcome.clear),
          FALSE)

\* execute_command from its entry to the first iteration of a for loop, or
\* to its end when the command has none; tokenized is tokenize(input).
EnterTokenized(state, input, tokenized) ==
        IF input = <<>> THEN Finished(<<>>, Outcome(state, <<>>, "ok", FALSE))
        ELSE IF ~tokenized.ok
        THEN Finished(<<>>, Outcome(state, << tokenized.err >>, "error", FALSE))
        ELSE IF tokenized.val = <<>>
        THEN Finished(<<>>, Outcome(state, <<>>, "ok", FALSE))
        ELSE IF IsLoopCommand(tokenized.val) /\ Args(tokenized.val) # <<>>
        THEN Point(state, Locals(tokenized.val, 2, <<>>, <<>>, "ok", FALSE), TRUE)
        ELSE Finished(tokenized.val, MatchArm(state, tokenized.val))

EnterCommand(state, input) ==
    Call(LAMBDA tokenized : EnterTokenized(state, input, tokenized),
         Tokenize(input))

\* a loop without the break: a failure is recorded and the loop goes on
LoopIteration_NoBreak(state, loc) ==
    LET command == loc.tokens[1]
        step == LoopBody(command, state, loc.tokens[loc.i])
        after == [state EXCEPT !.fs = step.fs]
        parts == IF command = KwCat /\ step.res.ok
                 THEN Append(loc.parts, step.res.val) ELSE loc.parts
        output == IF ~step.res.ok THEN << step.res.err >> ELSE loc.output
        status == IF ~step.res.ok THEN "error" ELSE loc.status
    IN  IF loc.i + 1 > Len(loc.tokens)
        THEN Point(after,
                   Locals(loc.tokens, loc.i + 1, parts,
                          IF command = KwCat /\ status = "ok"
                          THEN Join(parts, << "\n" >>) ELSE output,
                          status, loc.clear),
                   FALSE)
        ELSE Point(after,
                   Locals(loc.tokens, loc.i + 1, parts, output, status, loc.clear),
                   TRUE)

\* One iteration of the for loop (on tokens[i]) and, after the last one or
\* at the break, the rest of the arm.
LoopIteration(state, loc) ==
    LET command == loc.tokens[1]
        step == LoopBody(command, state, loc.tokens[loc.i])
        after == [state EXCEPT !.fs = step.fs]
        parts == IF command = KwCat /\ step.res.ok
                 THEN Append(loc.parts, step.res.val) ELSE loc.parts
    IN  IF ~step.res.ok
        THEN Point(after,
                   Locals(loc.tokens, loc.i, <<>>, << step.res.err >>, "error",
                          loc.clear),
                   FALSE)
        ELSE IF loc.i + 1 > Len(loc.tokens)
        THEN Point(after,
                   Locals(loc.tokens, loc.i + 1, parts,
                          IF command = KwCat THEN Join(parts, << "\n" >>)
                          ELSE loc.output,
                          loc.status, loc.clear),
                   FALSE)
        ELSE Point(after,
                   Locals(loc.tokens, loc.i + 1, parts, loc.output, loc.status,
                          loc.clear),
                   TRUE)

RECURSIVE RunLoop(_)
RunLoop(point) ==
    IF point.looping
    THEN Call(LAMBDA next : RunLoop(next), LoopIteration(point.state, point.loc))
    ELSE point

\* lines 255-260: the response, with the cwd as it is now
BuildResponse(state, loc) ==
    CommandResponse(loc.output, CwdString(state), loc.status, loc.clear)

\* execute_command(state, input): the session state after it and the
\* response.
ExecuteCommand(state, input) ==
    Call(LAMBDA end : [state |-> end.state,
                       resp |-> BuildResponse(end.state, end.loc)],
         Call(LAMBDA entry : RunLoop(entry), EnterCommand(state, input)))

(***************************************************************************)
(* The server: clients post commands to run_command, which locks the one   *)
(* TerminalState, runs execute_command on the trimmed command and returns  *)
(* the response, the guard being dropped as the handler returns.           *)
(***************************************************************************)
Clients == {"c1", "c2"}

NoClient == "none"

\* at most this many requests are posted in a run
MaxCmds == 3

A == << "a" >>
B == << "b" >>
X == << "x" >>

\* a command line: the words separated by one space
Line(words) == Join(words, << " " >>)

\* The command lines the clients post.
Inputs ==
    { Line(<< KwMkdir, A >>),
      Line(<< KwMkdir, A, A, B >>),
      Line(<< KwMkdir, A \o << "/" >> \o B >>),
      Line(<< KwMkdir >>),
      Line(<< KwTouch, B >>),
      Line(<< KwTouch, B, B \o << "/" >> \o A, A >>),
      Line(<< KwTouch, A >>),
      Line(<< KwCd, A >>),
      Line(<< KwCd >>),
      Line(<< KwCd, B >>),
      Line(<< KwEcho, X, Gt, B >>),
      Line(<< KwEcho, X, GtGt, B >>),
      Line(<< KwEcho, X, Gt, A >>),
      Line(<< KwEcho, X, Gt >>),
      Line(<< KwEcho, X >>),
      Line(<< KwLs >>),
      Line(<< KwCat, B >>),
      Line(<< KwCat, B, A >>),
      Line(<< KwPwd >>),
      Line(<< KwHelp >>),
      Line(<< KwClear >>),
      << "r", "m" >>,
      << " ", " " >>,
      KwEcho \o << " ", "\"", "a" >>,
      << " " >> \o Line(<< KwMkdir, B >>) \o << " " >> }

VARIABLES
    terminal,   \* the TerminalState inside the Mutex
    lock,       \* the client whose handler holds the MutexGuard, or NoClient
    pc,         \* where each client's handler is
    req,        \* payload.command of each client's request
    loc,        \* the locals of each client's execute_command
    resp,       \* the response each client's handler returned
    issued,     \* the number of requests posted so far
    pre,        \* history: the session state when the client got the lock
    post,       \* history: the session state when the client's handler returned
    ref,        \* history: the session state if the commands had run one after
                \* another, whole, in the order the lock was acquired
    expect,     \* history: the response of that sequential run to each client
    probe       \* a direct call of one function of the program and its result
                \* (NoProbe while the server runs)

server == << terminal, lock, pc, req, loc, resp, issued, pre, post, ref, expect >>

vars == << terminal, lock, pc, req, loc, resp, issued, pre, post, ref, expect,
          probe >>

\* no function is being called directly
NoProbe ==
    [fn |-> "none", state |-> TerminalStateDefault, input |-> << >>, ret |-> None]

\* the server as main constructs it
ServerInit ==
    /\ terminal = TerminalStateDefault
    /\ lock = NoClient
    /\ pc = [c \in Clients |-> "idle"]
    /\ req = [c \in Clients |-> << >>]
    /\ loc = [c \in Clients |-> LocalsDefault]
    /\ resp = [c \in Clients |-> None]
    /\ issued = 0
    /\ pre = [c \in Clients |-> None]
    /\ post = [c \in Clients |-> None]
    /\ ref = TerminalStateDefault
    /\ expect = [c \in Clients |-> None]

Init ==
    /\ ServerInit
    /\ probe = NoProbe

\* a lock that excludes nobody
LockIsFree_NoExclusion == TRUE

\* state.terminal.lock().await completes only while no guard is alive
LockIsFree == lock = NoClient

\* A client posts a command; its handler starts and waits for the lock.
Request(c, input) ==
    /\ pc[c] \in {"idle", "done"}
    /\ issued < MaxCmds
    /\ issued' = issued + 1
    /\ req' = [req EXCEPT ![c] = input]
    /\ pc' = [pc EXCEPT ![c] = "waiting"]
    /\ resp' = [resp EXCEPT ![c] = None]
    /\ pre' = [pre EXCEPT ![c] = None]
    /\ post' = [post EXCEPT ![c] = None]
    /\ expect' = [expect EXCEPT ![c] = None]
    /\ UNCHANGED << terminal, lock, loc, ref, probe >>

\* let mut terminal = state.terminal.lock().await
Acquire(c) ==
    /\ pc[c] = "waiting"
    /\ LockIsFree
    /\ lock' = c
    /\ pc' = [pc EXCEPT ![c] = "entered"]
    /\ pre' = [pre EXCEPT ![c] = Some(terminal)]
    /\ LET sequential == ExecuteCommand(ref, Trim(req[c]))
       IN  /\ ref' = sequential.state
           /\ expect' = [expect EXCEPT ![c] = Some(sequential.resp)]
    /\ UNCHANGED << terminal, req, loc, resp, issued, post, probe >>

\* execute_command(&mut terminal, payload.command.trim()), up to the first
\* iteration of a for loop or to the end of the match
Enter(c) ==
    /\ pc[c] = "entered"
    /\ LET point == EnterCommand(terminal, Trim(req[c]))
       IN  /\ terminal' = point.state
           /\ loc' = [loc EXCEPT ![c] = point.loc]
           /\ pc' = [pc EXCEPT ![c] = IF point.looping THEN "loop" ELSE "respond"]
    /\ UNCHANGED << lock, req, resp, issued, pre, post, ref, expect, probe >>

\* one iteration of the for loop of mkdir, touch or cat
LoopStep(c) ==
    /\ pc[c] = "loop"
    /\ LET point == LoopIteration(terminal, loc[c])
       IN  /\ terminal' = point.state
           /\ loc' = [loc EXCEPT ![c] = point.loc]
           /\ pc' = [pc EXCEPT ![c] = IF point.looping THEN "loop" ELSE "respond"]
    /\ UNCHANGED << lock, req, resp, issued, pre, post, ref, expect, probe >>

\* a guard that outlives the handler
LockAfterReturn_Leaked(c) == c

\* the guard is dropped when run_command returns
LockAfterReturn(c) == NoClient

\* execute_command builds the CommandResponse and returns; run_command
\* returns Json(response)
Respond(c) ==
    /\ pc[c] = "respond"
    /\ resp' = [resp EXCEPT ![c] = Some(BuildResponse(terminal, loc[c]))]
    /\ post' = [post EXCEPT ![c] = Some(terminal)]
    /\ loc' = [loc EXCEPT ![c] = LocalsDefault]
    /\ lock' = LockAfterReturn(c)
    /\ pc' = [pc EXCEPT ![c] = "done"]
    /\ UNCHANGED << terminal, req, issued, pre, ref, expect, probe >>

Next ==
    \E c \in Clients :
        \/ \E input \in Inputs : Request(c, input)
        \/ Acquire(c)
        \/ Enter(c)
        \/ LoopStep(c)
        \/ Respond(c)

Spec == Init /\ [][Next]_vars

\* What the steps of a handler do to pc.  Under Spec a step changes pc this
\* way exactly when it is a step of the action named: Acquire(c) for Acquired,
\* and Enter(c), LoopStep(c) or Respond(c) for Advanced.
Acquired(c) ==
    /\ pc[c] = "waiting"
    /\ LockIsFree
    /\ pc' = [pc EXCEPT ![c] = "entered"]

Advanced(c) ==
    \/ /\ pc[c] = "entered"
       /\ \E to \in {"loop", "respond"} : pc' = [pc EXCEPT ![c] = to]
    \/ /\ pc[c] = "loop"
       /\ \E to \in {"loop", "respond"} : pc' = [pc EXCEPT ![c] = to]
    \/ /\ pc[c] = "respond"
       /\ pc' = [pc EXCEPT ![c] = "done"]

\* The Mutex hands the lock to every waiter in turn (tokio's is FIFO), and
\* the runtime keeps polling a handler that can run.
FairSpec ==
    /\ Spec
    /\ \A c \in Clients :
        /\ SF_pc(Acquired(c))
        /\ WF_pc(Advanced(c))

\* The pc-level descriptions used for fairness describe the actions' steps.
StepsAgree ==
    [][\A c \in Clients :
          /\ Acquired(c) <=> Acquire(c)
          /\ Advanced(c) <=> (Enter(c) \/ LoopStep(c) \/ Respond(c))]_vars

(***************************************************************************)
(* The functions called directly                                           *)
(*                                                                         *)
(* tokenize, resolve_path and execute_command are functions of their       *)
(* arguments.  FnSpec calls each of them once on arguments drawn from      *)
(* bounded sets: probe holds the call (the function, the session state it  *)
(* is given, its input) and, after the call, its result.                   *)
(* The session states execute_command is called on are those the program   *)
(* reaches from TerminalState::default() by running up to MaxSeeds of the  *)
(* commands Seeds.                                                         *)
(***************************************************************************)
\* all sequences over a set up to a length
SeqsUpTo(S, n) == UNION { [1..k -> S] : k \in 0..n }

\* the longest path argument resolve_path is called on
MaxPathLen == 4

\* the longest input tokenize is called on
MaxInputLen == 5

\* the most commands run to build a session state
MaxSeeds == 3

C == << "c" >>
Ba == << "b", "a" >>
Dot == << "." >>
DotDot == << ".", "." >>
Slash == << "/" >>
DQ == << "\"" >>
SQ == << "'" >>
AB == << "a", " ", "b" >>
Hi == << "h", "i" >>

\* a word in double quotes
Quoted(word) == DQ \o word \o DQ

\* path arguments: every string of a, b, '.', '/' up to MaxPathLen, and ../c
PathChars == {"a", "b", ".", "/"}

RawPaths == SeqsUpTo(PathChars, MaxPathLen) \cup {DotDot \o Slash \o C}

\* working directories: up to two names
Cwds == SeqsUpTo({A, B}, 2)

\* command lines for tokenize: every string of a, space and the two quote
\* characters up to MaxInputLen, and  echo "a b" c
TokenChars == {"a", " ", "\"", "'"}

RawInputs ==
    SeqsUpTo(TokenChars, MaxInputLen) \cup {Line(<< KwEcho, Quoted(AB), C >>)}

\* the commands that build the session states
Seeds ==
    { Line(<< KwMkdir, A >>),
      Line(<< KwMkdir, B >>),
      Line(<< KwMkdir, Ba >>),
      Line(<< KwTouch, B >>),
      Line(<< KwTouch, A >>),
      Line(<< KwCd, A >>),
      Line(<< KwEcho, X, Gt, B >>),
      Line(<< KwEcho, AB, GtGt, B >>) }

\* the session after running the commands from i on
RECURSIVE SessionFrom(_, _, _)
SessionFrom(commands, i, state) ==
    IF i > Len(commands) THEN state
    ELSE Call(LAMBDA next : SessionFrom(commands, i + 1, next),
              ExecuteCommand(state, commands[i]).state)

Session(commands) == SessionFrom(commands, 1, TerminalStateDefault)

SeedStates == { Session(commands) : commands \in SeqsUpTo(Seeds, MaxSeeds) }

\* the paths the command lines for execute_command name
PathArgs ==
    { A, B, C, DotDot, Dot, Slash \o B, A \o Slash \o B, B \o Slash \o A,
      A \o Slash \o DotDot \o Slash \o B, C \o Slash \o B }

ExecInputs ==
    { Line(<< command, p >>) :
          command \in {KwLs, KwCd, KwMkdir, KwTouch, KwCat}, p \in PathArgs }
    \cup { Line(<< KwEcho, text, op, p >>) :
          text \in {X, AB}, op \in {Gt, GtGt}, p \in {B, A, A \o Slash \o B} }
    \cup { Line(<< KwCat, p, q >>) : p \in {A, B, C}, q \in {A, B, C} }
    \cup { Line(<< KwCat, B, A \o Slash \o B, B >>),
           Line(<< KwLs >>), Line(<< KwCd >>), Line(<< KwPwd >>),
           Line(<< KwHelp >>), Line(<< KwClear >>), Line(<< KwCat >>),
           Line(<< KwEcho, X >>), Line(<< KwEcho, Quoted(AB), C >>),
           Line(<< KwEcho, X, Gt >>),
           Line(<< KwEcho, Hi, Gt, Quoted(<< >>) >>),
           Line(<< KwEcho, Hi, GtGt, SQ \o SQ >>),
           Line(<< KwTouch, Quoted(<< >>) >>),
           Line(<< KwMkdir, Quoted(<< >>) >>),
           Line(<< KwMkdir, SQ \o SQ, B >>),
           Quoted(<< >>), Quoted(<< >>) \o << " " >> \o SQ \o SQ,
           KwEcho \o << " " >> \o DQ \o A, KwMkdir \o << " " >> \o SQ \o B,
           Line(<< KwClear, X >>), Line(<< KwEcho, KwClear >>),
           Line(<< KwEcho, Quoted(Gt), B >>),
           << "r", "m" >>, << " ", " " >>, << >> }

\* the session in which the commands mkdir s, cd s were run for each name s
\* of cwd in turn: its working directory is cwd
RECURSIVE EnterAll(_, _)
EnterAll(cwd, i) ==
    IF i > Len(cwd) THEN << >>
    ELSE << Line(<< KwMkdir, cwd[i] >>), Line(<< KwCd, cwd[i] >>) >>
             \o EnterAll(cwd, i + 1)

SessionIn(cwd) == Session(EnterAll(cwd, 1))

Probes ==
    { [fn |-> "resolve_path", state |-> SessionIn(cwd), input |-> input,
       ret |-> None] : cwd \in Cwds, input \in RawPaths }
    \cup { [fn |-> "tokenize", state |-> TerminalStateDefault, input |-> input,
            ret |-> None] : input \in RawInputs }
    \cup { [fn |-> "execute_command", state |-> state, input |-> input,
            ret |-> None] : state \in SeedStates, input \in ExecInputs }

FnInit ==
    /\ ServerInit
    /\ probe \in Probes

\* resolve_path(&state.cwd, input)
CallResolvePath ==
    /\ probe.fn = "resolve_path"
    /\ ~probe.ret.some
    /\ probe' = [probe EXCEPT
                   !.ret = Some(ResolvePath(probe.state.cwd, probe.input))]
    /\ UNCHANGED server

\* tokenize(input)
CallTokenize ==
    /\ probe.fn = "tokenize"
    /\ ~probe.ret.some
    /\ probe' = [probe EXCEPT !.ret = Some(Tokenize(probe.input))]
    /\ UNCHANGED server

\* execute_command(state, input): the state it leaves and the response
CallExecuteCommand ==
    /\ probe.fn = "execute_command"
    /\ ~probe.ret.some
    /\ probe' = [probe EXCEPT
                   !.ret = Some(ExecuteCommand(probe.state, probe.input))]
    /\ UNCHANGED server

FnNext ==
    \/ CallResolvePath
    \/ CallTokenize
    \/ CallExecuteCommand

FnSpec == FnInit /\ [][FnNext]_vars

\* the call of a function has returned
Returned(fn) == probe.fn = fn /\ probe.ret.some

(***************************************************************************)
(* Properties                                                              *)
(***************************************************************************)
\* the paths of the nodes of the tree under node
RECURSIVE TreePaths(_)
TreePaths(node) ==
    {<< >>} \cup
    IF node.kind = "Dir"
    THEN UNION { { << n >> \o p : p \in TreePaths(node.children[n]) } :
                 n \in DOMAIN node.children }
    ELSE {}

\* the paths of the tree and those one or two names (of a, b) below them
Names == {A, B}

Candidates(fs) ==
    LET here == TreePaths(fs.root)
    IN  here \cup { p \o << n >> : p \in here, n \in Names }
             \cup { p \o << n, m >> : p \in here, n \in Names, m \in Names }

\* the path denotes a node of that kind
IsKind(fs, path, kind) ==
    GetNode(fs, path).some /\ GetNode(fs, path).val.kind = kind

\* the path the handler's command resolves an argument to, from the cwd the
\* command started in
ArgPath(c, arg) == ResolvePath(pre[c].val.cwd, arg)

\* the handler is inside execute_command
InExecute(c) == pc[c] \in {"entered", "loop", "respond"}

\* the tokens of the command a client posted (<<>> when there are none)
TokensOf(c) ==
    LET tokenized == Tokenize(Trim(req[c]))
    IN  IF tokenized.ok THEN tokenized.val ELSE <<>>

\* the client's command is the given builtin
Runs(c, command) == TokensOf(c) # <<>> /\ TokensOf(c)[1] = command

\* C1: at most one command is inside execute_command at any time; a handler
\* holds the lock from before its command is tokenized until its response has
\* been computed.
C1_MutualExclusion ==
    /\ \A c \in Clients : InExecute(c) => lock = c
    /\ Cardinality({c \in Clients : InExecute(c)}) <= 1

\* one handler is in the middle of a multi-argument loop while the other
\* waits for the lock
C1_Witness ==
    \E c, d \in Clients :
        /\ c # d
        /\ pc[c] = "loop" /\ loc[c].i > 2
        /\ pc[d] = "waiting"

\* what is left of a handler's command, run to its end from here
Remainder(c) ==
    IF pc[c] = "entered" THEN ExecuteCommand(terminal, Trim(req[c]))
    ELSE LET end == RunLoop(Point(terminal, loc[c], pc[c] = "loop"))
         IN  [state |-> end.state, resp |-> BuildResponse(end.state, end.loc)]

\* C2: whatever the interleaving, each response and the final tree and cwd
\* are those of running the commands one after another in lock-acquisition
\* order; a command starts from, and runs on, a state in which every earlier
\* command is complete and no later one has begun.
C2_Serializable ==
    /\ \A c \in Clients : pc[c] = "done" => resp[c] = expect[c]
    /\ lock = NoClient => terminal = ref
    /\ \A c \in Clients :
        InExecute(c) =>
            /\ Remainder(c).state = ref
            /\ Some(Remainder(c).resp) = expect[c]
            /\ pc[c] = "entered" => terminal = pre[c].val

\* a multi-argument mkdir and an ls by different clients have both returned,
\* the ls having seen the mkdir's whole effect
C2_Witness ==
    \E c, d \in Clients :
        /\ c # d
        /\ pc[c] = "done" /\ req[c] = Line(<< KwMkdir, A, A, B >>)
        /\ pc[d] = "done" /\ req[d] = Line(<< KwLs >>)
        /\ resp[d].val.output = << "a", "/" >>

\* C3: a command that has the lock produces its response after finitely many
\* steps, at most one per token, and releases the lock; with a fair lock
\* every waiting command is executed, whatever commands failed before.
C3_RunsToCompletion ==
    /\ [](\A c \in Clients :
            pc[c] = "loop" => loc[c].i \in 2..Len(loc[c].tokens))
    /\ \A c \in Clients : (pc[c] = "waiting") ~> (pc[c] = "done")
    /\ \A c \in Clients : InExecute(c) ~> (pc[c] = "done" /\ lock # c)

\* a command was executed right after one that failed
C3_Witness ==
    \E c, d \in Clients :
        /\ c # d
        /\ pc[c] = "done" /\ resp[c].val.status = "error"
        /\ pc[d] = "done" /\ pre[d] = post[c]
        /\ Len(TokensOf(d)) > 1

\* C4: in every reachable state cwd denotes an existing Directory, and cwd
\* changes only in a step of a cd whose resolved target is_dir reported a
\* Directory, becoming that resolved target.
C4_CwdIsDirectory ==
    /\ [](IsDir(terminal.fs, terminal.cwd) = Ok(TRUE))
    /\ [][terminal'.cwd # terminal.cwd =>
            \E c \in Clients :
                /\ pc[c] = "entered" /\ Runs(c, KwCd)
                /\ terminal'.cwd =
                     ResolvePath(terminal.cwd,
                                 IF Len(TokensOf(c)) >= 2 THEN TokensOf(c)[2]
                                 ELSE << "/" >>)
                /\ IsDir(terminal.fs, terminal'.cwd) = Ok(TRUE)]_vars

\* a cd into the directory a has returned and the session is there
C4_Witness ==
    \E c \in Clients :
        /\ pc[c] = "done" /\ req[c] = Line(<< KwCd, A >>)
        /\ resp[c].val.status = "ok"
        /\ terminal.cwd = << A >>

\* the command in a handler's hands is an echo with a redirect
IsRedirect(c) ==
    Runs(c, KwEcho) /\ RedirectPosition(Args(TokensOf(c))).some

\* C5: the root is always a Directory; a step never removes a node or changes
\* its kind, and changes a File's content only in an echo with a redirect.
C5_TreeOnlyGrows ==
    /\ [](terminal.fs.root.kind = "Dir")
    /\ [][\A p \in TreePaths(terminal.fs.root) :
            /\ GetNode(terminal'.fs, p).some
            /\ GetNode(terminal'.fs, p).val.kind = GetNode(terminal.fs, p).val.kind
            /\ IsKind(terminal.fs, p, "File") =>
                \/ GetNode(terminal'.fs, p) = GetNode(terminal.fs, p)
                \/ \E c \in Clients : pc[c] = "entered" /\ IsRedirect(c)]_vars

\* the tree holds a Directory and a File with content, after a touch of that
\* File has returned
C5_Witness ==
    /\ IsKind(terminal.fs, << A >>, "Dir")
    /\ GetNode(terminal.fs, << B >>) = Some(FileNode(X))
    /\ \E c \in Clients :
        /\ pc[c] = "done" /\ req[c] = Line(<< KwTouch, B >>)
        /\ GetNode(pre[c].val.fs, << B >>) = Some(FileNode(X))

\* mkdir or touch with two or more arguments, the first of which succeeded
EarlierArgumentsApplied(c) ==
    /\ Runs(c, KwMkdir) \/ Runs(c, KwTouch)
    /\ Len(TokensOf(c)) >= 3
    /\ LoopBody(TokensOf(c)[1], pre[c].val, TokensOf(c)[2]).res.ok

\* C6: a mkdir, touch or write_file that fails returns the tree it was given;
\* a command that returned status error, unless it is a multi-argument mkdir
\* or touch whose earlier arguments succeeded, left the tree and cwd as they
\* were when it started, and the session then runs the next command as the
\* sequential run does.
C6_FailureChangesNothing ==
    /\ \A p \in Candidates(terminal.fs) :
        LET made == Mkdir(terminal.fs, p)
            touched == Touch(terminal.fs, p)
        IN  /\ ~made.res.ok => made.fs = terminal.fs
            /\ ~touched.res.ok => touched.fs = terminal.fs
            /\ \A append \in BOOLEAN :
                LET written == WriteFile(terminal.fs, p, X, append)
                IN  ~written.res.ok => written.fs = terminal.fs
    /\ \A c \in Clients :
        (pc[c] = "done" /\ resp[c].val.status = "error"
            /\ ~EarlierArgumentsApplied(c)) =>
                post[c] = pre[c]
    /\ \A c, d \in Clients :
        (pc[c] = "done" /\ resp[c].val.status = "error"
            /\ pc[d] = "done" /\ pre[d] = post[c]) =>
                /\ resp[d] = expect[d]
                /\ post[d].val = ExecuteCommand(pre[d].val, Trim(req[d])).state

\* an echo redirected onto a Directory has failed, and another command ran
\* right after it and succeeded
C6_Witness ==
    \E c, d \in Clients :
        /\ c # d
        /\ pc[c] = "done" /\ req[c] = Line(<< KwEcho, X, Gt, A >>)
        /\ resp[c].val.output = << "echo: target is a directory" >>
        /\ pc[d] = "done" /\ pre[d] = post[c]
        /\ resp[d].val.status = "ok" /\ post[d] # pre[d]

\* the tree after the first k of the arguments have been applied in order to
\* the state the command started in
RECURSIVE AppliedUpTo(_, _, _, _)
AppliedUpTo(command, state, args, k) ==
    IF k = 0 THEN state
    ELSE LET before == AppliedUpTo(command, state, args, k - 1)
         IN  [before EXCEPT !.fs = LoopBody(command, before, args[k]).fs]

\* argument k fails, on the tree the arguments before it leave
FailsAt(command, state, args, k) ==
    ~LoopBody(command, AppliedUpTo(command, state, args, k - 1), args[k]).res.ok

\* C7: mkdir and touch apply their arguments left to right: when argument k
\* is the first to fail, the response is status error with argument k's
\* message and the tree is the one arguments 1..k-1 made, no later argument
\* applied; with every argument applied the status is ok; with no argument
\* the response is the error `missing operand` and nothing changes.
C7_LeftToRight ==
    \A c \in Clients :
        (pc[c] = "done" /\ (Runs(c, KwMkdir) \/ Runs(c, KwTouch))) =>
            LET command == TokensOf(c)[1]
                args == Args(TokensOf(c))
                failing == {k \in 1..Len(args) :
                              FailsAt(command, pre[c].val, args, k)}
                first == CHOOSE k \in failing : \A j \in failing : k <= j
            IN  IF args = <<>>
                THEN /\ resp[c].val.status = "error"
                     /\ resp[c].val.output = << MissingOperand(command) >>
                     /\ post[c] = pre[c]
                ELSE IF failing = {}
                THEN /\ resp[c].val.status = "ok"
                     /\ resp[c].val.output = <<>>
                     /\ post[c].val =
                          AppliedUpTo(command, pre[c].val, args, Len(args))
                ELSE /\ resp[c].val.status = "error"
                     /\ resp[c].val.output =
                          << LoopBody(command,
                                      AppliedUpTo(command, pre[c].val, args,
                                                  first - 1),
                                      args[first]).res.err >>
                     /\ post[c].val =
                          AppliedUpTo(command, pre[c].val, args, first - 1)

\* `mkdir a a b` has failed at its second argument: a is in the tree, b is
\* not
C7_Witness ==
    \E c \in Clients :
        /\ pc[c] = "done" /\ req[c] = Line(<< KwMkdir, A, A, B >>)
        /\ resp[c].val.output = << "mkdir: already exists" >>
        /\ ~GetNode(pre[c].val.fs, ArgPath(c, A)).some
        /\ IsKind(post[c].val.fs, ArgPath(c, A), "Dir")
        /\ ~GetNode(post[c].val.fs, ArgPath(c, B)).some

\* C8: mkdir on a path whose final name exists in the parent Directory, as a
\* File or as a Directory, fails with AlreadyExists and returns the tree
\* unchanged; a `mkdir a` run where a exists reports it and leaves the state
\* as it was.
C8_MkdirAlreadyExists ==
    /\ \A p \in TreePaths(terminal.fs.root) \ {<< >>} :
        Mkdir(terminal.fs, p) =
            [fs |-> terminal.fs, res |-> Err("mkdir: already exists")]
    /\ \A c \in Clients :
        (pc[c] = "done" /\ req[c] = Line(<< KwMkdir, A >>)
            /\ GetNode(pre[c].val.fs, ArgPath(c, A)).some) =>
                /\ resp[c].val.status = "error"
                /\ resp[c].val.output = << "mkdir: already exists" >>
                /\ post[c] = pre[c]

\* `mkdir a` has failed on the File a that a touch made
C8_Witness ==
    \E c \in Clients :
        /\ pc[c] = "done" /\ req[c] = Line(<< KwMkdir, A >>)
        /\ resp[c].val.output = << "mkdir: already exists" >>
        /\ IsKind(post[c].val.fs, ArgPath(c, A), "File")

\* the nodes of before are in after, each as it was (a Directory may have
\* gained children)
Kept(before, after) ==
    \A q \in TreePaths(before.root) :
        /\ GetNode(after, q).some
        /\ GetNode(after, q).val.kind = GetNode(before, q).val.kind
        /\ IsKind(before, q, "File") => GetNode(after, q) = GetNode(before, q)

\* C9: a mkdir whose parent does not resolve fails with ParentNotFound and
\* returns the tree unchanged (`mkdir a/b` without a creates neither a nor
\* a/b); a mkdir that succeeds adds one node, an empty Directory at the path,
\* and changes nothing else.
C9_MkdirOneLevel ==
    /\ \A p \in Candidates(terminal.fs) \ {<< >>} :
        LET made == Mkdir(terminal.fs, p)
        IN  /\ ~GetNode(terminal.fs, SplitParent(p).parent).some =>
                made = [fs |-> terminal.fs, res |-> Err("mkdir: parent not found")]
            /\ made.res.ok =>
                /\ TreePaths(made.fs.root) = TreePaths(terminal.fs.root) \cup {p}
                /\ p \notin TreePaths(terminal.fs.root)
                /\ GetNode(made.fs, p) = Some(DirNode(EmptyMap))
                /\ Kept(terminal.fs, made.fs)
    /\ \A c \in Clients :
        (pc[c] = "done" /\ req[c] = Line(<< KwMkdir, A \o << "/" >> \o B >>)
            /\ ~GetNode(pre[c].val.fs, ArgPath(c, A)).some) =>
                /\ resp[c].val.status = "error"
                /\ resp[c].val.output = << "mkdir: parent not found" >>
                /\ post[c] = pre[c]
                /\ ~GetNode(post[c].val.fs, ArgPath(c, A)).some

\* `mkdir a/b` has failed for want of a, and a `mkdir a` in the same
\* directory has succeeded
C9_Witness ==
    \E c, d \in Clients :
        /\ pc[c] = "done" /\ req[c] = Line(<< KwMkdir, A \o << "/" >> \o B >>)
        /\ resp[c].val.output = << "mkdir: parent not found" >>
        /\ pc[d] = "done" /\ req[d] = Line(<< KwMkdir, A >>)
        /\ resp[d].val.status = "ok" /\ pre[d] = post[c]

\* C10: touch on a path that denotes a File succeeds and returns the tree
\* unchanged, so a second touch of a path changes nothing the first left;
\* touch on a Directory fails with IsADirectory; a `touch b` run where b is
\* a File returns ok and leaves content and tree as they were.
C10_TouchIdempotent ==
    /\ \A p \in Candidates(terminal.fs) \ {<< >>} :
        LET once == Touch(terminal.fs, p)
        IN  /\ IsKind(terminal.fs, p, "File") =>
                once = [fs |-> terminal.fs, res |-> Ok(TRUE)]
            /\ once.res.ok =>
                Touch(once.fs, p) = [fs |-> once.fs, res |-> Ok(TRUE)]
            /\ IsKind(terminal.fs, p, "Dir") =>
                once = [fs |-> terminal.fs, res |-> Err("touch: is a directory")]
    /\ \A c \in Clients :
        (pc[c] = "done" /\ req[c] = Line(<< KwTouch, B >>)
            /\ IsKind(pre[c].val.fs, ArgPath(c, B), "File")) =>
                /\ resp[c].val.status = "ok"
                /\ resp[c].val.output = <<>>
                /\ post[c] = pre[c]

\* `touch b` has returned ok on a File b that held x, and it still holds x
C10_Witness ==
    \E c \in Clients :
        /\ pc[c] = "done" /\ req[c] = Line(<< KwTouch, B >>)
        /\ resp[c].val.status = "ok"
        /\ GetNode(pre[c].val.fs, ArgPath(c, B)) = Some(FileNode(X))
        /\ GetNode(post[c].val.fs, ArgPath(c, B)) = Some(FileNode(X))

\* what cat f answers in a session state
Cat(state, f) == ExecuteCommand(state, Line(<< KwCat, f >>)).resp

\* the called execute_command was given this command line and has returned
Executed(input) == Returned("execute_command") /\ probe.input = input

\* C11: after a successful `echo c > f`, `cat f` returns exactly c, whatever
\* f held before; after a successful `echo d >> f`, `cat f` returns the old
\* content, a newline and d when the old content was non-empty, and exactly d
\* when the file was empty or absent.
C11_WriteThenRead ==
    \A text \in {X, AB}, f \in {B, A, A \o Slash \o B} :
        /\ (Executed(Line(<< KwEcho, text, Gt, f >>))
                /\ probe.ret.val.resp.status = "ok") =>
            Cat(probe.ret.val.state, f) =
                CommandResponse(text, CwdString(probe.state), "ok", FALSE)
        /\ (Executed(Line(<< KwEcho, text, GtGt, f >>))
                /\ probe.ret.val.resp.status = "ok") =>
            LET old == Cat(probe.state, f)
                now == Cat(probe.ret.val.state, f)
            IN  /\ now.status = "ok"
                /\ (old.status = "ok" /\ old.output # << >>) =>
                        now.output = old.output \o << "\n" >> \o text
                /\ (old.status = "error" \/ old.output = << >>) =>
                        now.output = text

\* `echo a b >> b` has appended to a file that held x, and to an empty one
C11_Witness ==
    /\ Executed(Line(<< KwEcho, AB, GtGt, B >>))
    /\ probe.ret.val.resp.status = "ok"
    /\ Cat(probe.state, B).status = "ok"
    /\ Cat(probe.state, B).output = X
    /\ Cat(probe.ret.val.state, B).output = << "x", "\n", "a", " ", "b" >>

\* the path an argument of the called execute_command resolves to
Target(p) == ResolvePath(probe.state.cwd, p)

\* the text of the cwd field for a working directory
Rendering(cwd) == IF cwd = << >> THEN << "/" >> ELSE << "/" >> \o Join(cwd, << "/" >>)

\* C12: cd to a path that resolves to a File fails with `Not a directory`, cd
\* to a path that does not exist fails with the lookup's error; in both
\* cases the session (cwd and tree) is unchanged and the cwd field of the
\* response is the unchanged cwd.
C12_CdFailure ==
    \A p \in PathArgs :
        Executed(Line(<< KwCd, p >>)) =>
            LET before == probe.state
                answer == probe.ret.val.resp
                unchanged ==
                    /\ probe.ret.val.state = before
                    /\ answer.cwd = Rendering(before.cwd)
                    /\ answer.status = "error"
                    /\ ~answer.clear
            IN  /\ IsKind(before.fs, Target(p), "File") =>
                    (unchanged /\ answer.output = << "Not a directory" >>)
                /\ Target(p) \notin TreePaths(before.fs.root) =>
                    (unchanged /\ answer.output = << "Path not found" >>)

\* from /a, `cd /b` was refused because /b is a file
C12_Witness ==
    /\ Executed(Line(<< KwCd, Slash \o B >>))
    /\ probe.state.cwd = << A >>
    /\ IsKind(probe.state.fs, << B >>, "File")
    /\ probe.ret.val.resp =
           CommandResponse(<< "Not a directory" >>, << "/", "a" >>, "error", FALSE)
    /\ probe.ret.val.state.cwd = << A >>

\* what cat answers for each of its arguments alone
RECURSIVE CatEach(_, _, _)
CatEach(state, files, i) ==
    IF i > Len(files) THEN << >>
    ELSE << Cat(state, files[i]) >> \o CatEach(state, files, i + 1)

\* C13: cat is all-or-nothing in its output: it returns either the contents
\* of all its arguments joined by a newline in argument order, with status
\* ok, or only the message of the first failing argument, with status error
\* and none of the contents read before it; it changes nothing.
C13_CatAllOrNothing ==
    \A files \in { << p >> : p \in PathArgs }
                 \cup { << p, q >> : p \in {A, B, C}, q \in {A, B, C} }
                 \cup { << B, A \o Slash \o B, B >> } :
        Executed(Line(<< KwCat >> \o files)) =>
            LET each == CatEach(probe.state, files, 1)
                failing == { i \in 1..Len(files) : each[i].status = "error" }
                answer == probe.ret.val.resp
            IN  /\ probe.ret.val.state = probe.state
                /\ failing = {} =>
                    /\ answer.status = "ok"
                    /\ answer.output =
                         Join([i \in 1..Len(files) |-> each[i].output], << "\n" >>)
                /\ failing # {} =>
                    LET first == CHOOSE i \in failing : \A j \in failing : i <= j
                    IN  /\ answer.status = "error"
                        /\ answer.output = each[first].output

\* `cat b a/b b` read b (which holds x), failed on a/b and answered with
\* that message alone
C13_Witness ==
    /\ Executed(Line(<< KwCat, B, A \o Slash \o B, B >>))
    /\ Cat(probe.state, B) =
           CommandResponse(X, Rendering(probe.state.cwd), "ok", FALSE)
    /\ probe.ret.val.resp.status = "error"
    /\ probe.ret.val.resp.output = << "cat: file not found" >>

\* C14: the cwd field of every response is the rendering of the working
\* directory after the command: the new directory after a successful cd, the
\* directory the command started in otherwise; it is what a pwd that follows
\* immediately outputs.
C14_ResponseCwd ==
    Returned("execute_command") =>
        LET answer == probe.ret.val.resp
            after == probe.ret.val.state
            tokenized == Tokenize(probe.input)
            moved == /\ tokenized.ok
                     /\ tokenized.val # << >>
                     /\ tokenized.val[1] = KwCd
                     /\ answer.status = "ok"
        IN  /\ answer.cwd = Rendering(after.cwd)
            /\ ExecuteCommand(after, KwPwd).resp =
                   CommandResponse(answer.cwd, answer.cwd, "ok", FALSE)
            /\ moved =>
                   after.cwd = IF Len(tokenized.val) >= 2
                               THEN Target(tokenized.val[2]) ELSE << >>
            /\ ~moved => after.cwd = probe.state.cwd

\* `cd a/../b` moved from / to /b and answered cwd /b
C14_Witness ==
    /\ Executed(Line(<< KwCd, A \o Slash \o DotDot \o Slash \o B >>))
    /\ probe.state.cwd = << >>
    /\ probe.ret.val.state.cwd = << B >>
    /\ probe.ret.val.resp = CommandResponse(<< >>, << "/", "b" >>, "ok", FALSE)

\* a segment that names something: not empty, not `.`, not `..`, no '/'
Proper(segment) ==
    /\ segment \notin {<< >>, Dot, DotDot}
    /\ \A i \in 1..Len(segment) : segment[i] # "/"

\* the segments of the cwd of a session state and the names in its tree
SegmentsOf(state) ==
    { state.cwd[i] : i \in 1..Len(state.cwd) }
    \cup UNION { { p[i] : i \in 1..Len(p) } : p \in TreePaths(state.fs.root) }

\* C15: resolve_path is total and normalizing.  On every input, from a cwd
\* of proper segments, it returns proper segments only; an input with a
\* leading '/' resolves as from the root whatever the cwd; a single segment
\* is dropped when empty or `.`, pops the last segment when `..` (nothing at
\* the root) and is appended otherwise; segments apply left to right;
\* Resolve([], `..`) = [] and Resolve([a, b], `../c`) = [a, c].  Hence the
\* cwd and every name of the tree are proper in every session state.
C15_ResolveNormalizes ==
    /\ Returned("resolve_path") =>
        LET cwd == probe.state.cwd
            input == probe.input
            parts == probe.ret.val
            slashes == { k \in 1..Len(input) : input[k] = "/" }
        IN  /\ \A i \in 1..Len(parts) : Proper(parts[i])
            /\ (input # << >> /\ Head(input) = "/") =>
                   \A other \in Cwds : ResolvePath(other, input) = parts
            /\ slashes = {} =>
                   parts = IF input \in {<< >>, Dot} THEN cwd
                           ELSE IF input = DotDot
                           THEN SubSeq(cwd, 1, Len(cwd) - 1)
                           ELSE cwd \o << input >>
            /\ \A k \in slashes \ {1} :
                   parts = ResolvePath(ResolvePath(cwd, SubSeq(input, 1, k - 1)),
                                       << "." >> \o SubSeq(input, k, Len(input)))
            /\ (cwd = << >> /\ input = DotDot) => parts = << >>
            /\ (cwd = << A, B >> /\ input = DotDot \o Slash \o C) =>
                   parts = << A, C >>
    /\ Returned("execute_command") =>
        /\ \A segment \in SegmentsOf(probe.state) : Proper(segment)
        /\ \A segment \in SegmentsOf(probe.ret.val.state) : Proper(segment)

\* resolve_path([a, b], `../c`) has returned [a, c]
C15_Witness ==
    /\ Returned("resolve_path")
    /\ probe.state.cwd = << A, B >>
    /\ probe.input = << ".", ".", "/", "c" >>
    /\ probe.ret.val = << A, C >>

\* a comes before b in lexicographic order of the characters
Before(a, b) ==
    \E k \in 1..(Len(b)) :
        /\ k <= Len(a) + 1
        /\ \A i \in 1..(k - 1) : a[i] = b[i]
        /\ k = Len(a) + 1 \/ CharCode(a[k]) < CharCode(b[k])

\* the entries ls shows for a Directory: its child names in ascending order,
\* those of Directories with '/' appended
Entries(dir) ==
    LET names == DOMAIN dir.children
        n == Cardinality(names)
        ordered == CHOOSE f \in [1..n -> names] :
                       \A i, j \in 1..n : i < j => Before(f[i], f[j])
    IN  [i \in 1..n |->
            IF dir.children[ordered[i]].kind = "Dir"
            THEN ordered[i] \o << "/" >> ELSE ordered[i]]

\* C16: ls of a Directory outputs its immediate child names in ascending
\* lexicographic order, each Directory name suffixed with '/', joined by
\* exactly two spaces (the empty string for an empty Directory), status ok;
\* Directory a and File b list as `a/  b`; ls of a File is ok and outputs
\* the final segment of its path; ls of an absent path is an error; ls with
\* no argument lists the cwd.
C16_LsOutput ==
    \A line \in { << KwLs, p >> : p \in PathArgs } \cup {<< KwLs >>} :
        Executed(Line(line)) =>
            LET path == IF Len(line) = 1 THEN probe.state.cwd ELSE Target(line[2])
                fs == probe.state.fs
                answer == probe.ret.val.resp
            IN  /\ probe.ret.val.state = probe.state
                /\ ~answer.clear
                /\ IsKind(fs, path, "Dir") =>
                    /\ answer.status = "ok"
                    /\ answer.output =
                         Join(Entries(GetNode(fs, path).val), << " ", " " >>)
                    /\ GetNode(fs, path).val.children = EmptyMap =>
                         answer.output = << >>
                /\ IsKind(fs, path, "File") =>
                    /\ answer.status = "ok"
                    /\ answer.output = path[Len(path)]
                /\ path \notin TreePaths(fs.root) =>
                    /\ answer.status = "error"
                    /\ answer.output = << "Path not found" >>

\* ls with no argument, in a root that holds Directory a and File b, has
\* output `a/  b`
C16_Witness ==
    /\ Executed(KwLs)
    /\ probe.state.cwd = << >>
    /\ IsKind(probe.state.fs, << A >>, "Dir")
    /\ IsKind(probe.state.fs, << B >>, "File")
    /\ probe.ret.val.resp =
           CommandResponse(<< "a", "/", " ", " ", "b" >>, << "/" >>, "ok", FALSE)

\* the kind of error a message of the FileSystem operations reports
ErrorKind(message) ==
    CASE message \in {"Path not found", "cat: file not found"} -> "NotFound"
      [] message \in {"mkdir: parent not found", "touch: parent not found",
                      "echo: parent not found"} -> "ParentNotFound"
      [] message \in {"mkdir: parent is not a directory",
                      "touch: parent is not a directory",
                      "echo: parent is not a directory"} -> "NotADirectory"
      [] OTHER -> "Other"

\* an interior segment of the path (any but the last) names a File or is
\* absent
BrokenInside(fs, path) ==
    \E k \in 1..(Len(path) - 1) :
        \/ SubSeq(path, 1, k) \notin TreePaths(fs.root)
        \/ IsKind(fs, SubSeq(path, 1, k), "File")

\* the results of mkdir, touch and write_file on a path
Mutations(fs, path) ==
    { Mkdir(fs, path), Touch(fs, path) }
    \cup { WriteFile(fs, path, X, append) : append \in BOOLEAN }

\* C17, as stated: every filesystem operation (lookup, isDir, list, mkdir,
\* touch, readFile, writeFile) given a path one of whose interior segments
\* names a File or is absent fails with NotFound.
C17_AllNotFound ==
    \A p \in Candidates(terminal.fs) :
        BrokenInside(terminal.fs, p) =>
            /\ ~GetNode(terminal.fs, p).some
            /\ \A result \in { IsDir(terminal.fs, p), List(terminal.fs, p),
                               ReadFile(terminal.fs, p) } :
                   ~result.ok /\ ErrorKind(result.err) = "NotFound"
            /\ \A done \in Mutations(terminal.fs, p) :
                   ~done.res.ok /\ ErrorKind(done.res.err) = "NotFound"

\* C17, as the operations behave: given a path one of whose interior
\* segments names a File or is absent, the lookup finds nothing and isDir,
\* list and readFile fail with NotFound; mkdir, touch and writeFile fail and
\* leave the tree unchanged, with NotADirectory when the parent of the path
\* is itself a File and with ParentNotFound otherwise.
C17_BrokenPathFails ==
    /\ \A p \in Candidates(terminal.fs) :
        BrokenInside(terminal.fs, p) =>
            /\ ~GetNode(terminal.fs, p).some
            /\ ~GetNodeMut(terminal.fs, p).some
            /\ \A result \in { IsDir(terminal.fs, p), List(terminal.fs, p),
                               ReadFile(terminal.fs, p) } :
                   ~result.ok /\ ErrorKind(result.err) = "NotFound"
            /\ \A done \in Mutations(terminal.fs, p) :
                   /\ done.fs = terminal.fs
                   /\ ~done.res.ok
                   /\ ErrorKind(done.res.err) =
                          IF IsKind(terminal.fs, SplitParent(p).parent, "File")
                          THEN "NotADirectory" ELSE "ParentNotFound"
    /\ \A c \in Clients :
        (pc[c] = "done" /\ req[c] = Line(<< KwMkdir, A \o Slash \o B >>)
            /\ BrokenInside(pre[c].val.fs, ArgPath(c, A \o Slash \o B))) =>
                /\ resp[c].val.status = "error"
                /\ resp[c].val.output =
                       IF IsKind(pre[c].val.fs, ArgPath(c, A), "File")
                       THEN << "mkdir: parent is not a directory" >>
                       ELSE << "mkdir: parent not found" >>
                /\ post[c].val = pre[c].val

\* `mkdir a/b` was answered `mkdir: parent not found` where a did not exist,
\* and the tree now holds a File b, under which every path is broken
C17_Witness ==
    \E c \in Clients :
        /\ pc[c] = "done"
        /\ req[c] = Line(<< KwMkdir, A \o Slash \o B >>)
        /\ ArgPath(c, A) \notin TreePaths(pre[c].val.fs.root)
        /\ resp[c].val.output = << "mkdir: parent not found" >>
        /\ IsKind(terminal.fs, << B >>, "File")
        /\ BrokenInside(terminal.fs, << B, A >>)

\* C18: help, pwd, ls, cat, clear, echo without a `>` or `>>` token, an
\* unknown first token, empty or all-whitespace input and a tokenize failure
\* leave both the tree and the cwd unchanged; cd never changes the tree;
\* mkdir, touch and echo with a redirect never change the cwd; the clear flag
\* of the response is true exactly when the first token is `clear`.
C18_Frame ==
    Returned("execute_command") =>
        LET before == probe.state
            after == probe.ret.val.state
            tokenized == Tokenize(probe.input)
            tokens == IF tokenized.ok THEN tokenized.val ELSE << >>
            first == IF tokens = << >> THEN << >> ELSE tokens[1]
            redirects == \E i \in 2..Len(tokens) : tokens[i] \in {Gt, GtGt}
        IN  /\ (\/ first \in {KwHelp, KwPwd, KwLs, KwCat, KwClear}
                \/ first = KwEcho /\ ~redirects
                \/ first \notin {KwHelp, KwPwd, KwLs, KwCd, KwMkdir, KwTouch,
                                 KwCat, KwEcho, KwClear}) =>
                   after = before
            /\ first = KwCd => after.fs = before.fs
            /\ (first \in {KwMkdir, KwTouch} \/ (first = KwEcho /\ redirects)) =>
                   after.cwd = before.cwd
            /\ probe.ret.val.resp.clear <=> (first = KwClear)

\* `clear x`, run in /a, set the clear flag and changed nothing
C18_Witness ==
    /\ Executed(Line(<< KwClear, X >>))
    /\ probe.state.cwd = << A >>
    /\ probe.ret.val.state = probe.state
    /\ probe.ret.val.resp = CommandResponse(<< >>, << "/", "a" >>, "ok", TRUE)

\* The quote span open before character i of the input: "" outside a span,
\* else the quote character that opened it.
RECURSIVE OpenBefore(_, _)
OpenBefore(input, i) ==
    IF i = 1 THEN ""
    ELSE LET open == OpenBefore(input, i - 1)
             ch == input[i - 1]
         IN  IF open = "" THEN (IF ch \in {"'", "\""} THEN ch ELSE "")
             ELSE IF ch = open THEN "" ELSE open

\* what character i of the input is: a quote character that opens or closes
\* a span, whitespace between tokens, or a character of a token
Role(input, i) ==
    LET open == OpenBefore(input, i)
    IN  IF open = ""
        THEN IF input[i] \in {"'", "\""} THEN "quote"
             ELSE IF IsWhitespace(input[i]) THEN "space"
             ELSE "text"
        ELSE IF input[i] = open THEN "quote" ELSE "text"

\* the characters of the input from i to j that belong to a token
RECURSIVE TextOf(_, _, _)
TextOf(input, i, j) ==
    IF i > j THEN << >>
    ELSE (IF Role(input, i) = "text" THEN << input[i] >> ELSE << >>)
             \o TextOf(input, i + 1, j)

\* the pieces of the input between unquoted whitespace, from position i on,
\* each as the text it holds
RECURSIVE PiecesFrom(_, _)
PiecesFrom(input, i) ==
    IF i > Len(input) THEN << >>
    ELSE IF Role(input, i) = "space" THEN PiecesFrom(input, i + 1)
    ELSE LET spaces == { k \in i..Len(input) : Role(input, k) = "space" }
             end == IF spaces = {} THEN Len(input) + 1
                    ELSE CHOOSE k \in spaces : \A m \in spaces : k <= m
         IN  << TextOf(input, i, end - 1) >> \o PiecesFrom(input, end)

\* C19: the tokenizer splits on runs of unquoted whitespace; a ' or " opens
\* a literal span closed only by the same quote character; quote characters
\* are never emitted, and adjacent quoted and unquoted pieces form one token:
\* Tokenize(`echo "a b" c`) = [echo, `a b`, c].  If the input ends inside an
\* open span the tokenizer fails with `Unclosed quote` and returns no
\* tokens, and the command yields status error with tree and cwd untouched.
C19_Tokenizer ==
    /\ Returned("tokenize") =>
        LET input == probe.input
            result == probe.ret.val
            pieces == PiecesFrom(input, 1)
        IN  /\ OpenBefore(input, Len(input) + 1) # "" =>
                result = Err("Unclosed quote")
            /\ OpenBefore(input, Len(input) + 1) = "" =>
                /\ result.ok
                /\ result.val = SelectSeq(pieces, LAMBDA piece : piece # << >>)
            /\ input = Line(<< KwEcho, Quoted(AB), C >>) =>
                result = Ok(<< KwEcho, AB, C >>)
    /\ (Returned("execute_command") /\ ~Tokenize(probe.input).ok) =>
        /\ probe.ret.val.state = probe.state
        /\ probe.ret.val.resp =
               CommandResponse(<< "Unclosed quote" >>,
                               Rendering(probe.state.cwd), "error", FALSE)

\* tokenize(`a' "'`) has returned the one token `a "`: a quoted span that
\* holds a space and the other quote character, joined to the text before it
C19_Witness ==
    /\ Returned("tokenize")
    /\ probe.input = << "a", "'", " ", "\"", "'" >>
    /\ probe.ret.val = Ok(<< << "a", " ", "\"" >> >>)

\* the input consists of empty quoted spans ("" or '') and whitespace, with
\* at least one span
OnlyEmptySpans(input) ==
    /\ \A i \in 1..Len(input) : Role(input, i) \in {"quote", "space"}
    /\ \E i \in 1..Len(input) : Role(input, i) = "quote"
    /\ OpenBefore(input, Len(input) + 1) = ""

\* the answer of a command that failed with this message and changed nothing
Refused(message) ==
    /\ probe.ret.val.state = probe.state
    /\ probe.ret.val.resp =
           CommandResponse(<< message >>, Rendering(probe.state.cwd),
                           "error", FALSE)

\* C20: the tokenizer never emits an empty token: every token it returns is
\* non-empty, and an empty quoted span ("" or '') standing alone produces no
\* token at all.  Consequently `touch ""` and `mkdir ""` report `missing
\* operand`, `echo hi > ""` reports `missing file operand`, and an input of
\* empty quoted spans only yields status ok with empty output.
C20_NoEmptyToken ==
    /\ Returned("tokenize") =>
        /\ probe.ret.val.ok =>
               \A i \in 1..Len(probe.ret.val.val) : probe.ret.val.val[i] # << >>
        /\ OnlyEmptySpans(probe.input) => probe.ret.val = Ok(<< >>)
    /\ Executed(Line(<< KwTouch, Quoted(<< >>) >>)) =>
           Refused("touch: missing operand")
    /\ Executed(Line(<< KwMkdir, Quoted(<< >>) >>)) =>
           Refused("mkdir: missing operand")
    /\ \A op \in {<< Gt, Quoted(<< >>) >>, << GtGt, SQ \o SQ >>} :
           Executed(Line(<< KwEcho, Hi >> \o op)) =>
               Refused("echo: missing file operand")
    /\ (Returned("execute_command") /\ OnlyEmptySpans(probe.input)) =>
        /\ probe.ret.val.state = probe.state
        /\ probe.ret.val.resp =
               CommandResponse(<< >>, Rendering(probe.state.cwd), "ok", FALSE)

\* touch "" was run in a session that holds files and answered `touch:
\* missing operand`
C20_Witness ==
    /\ Executed(Line(<< KwTouch, Quoted(<< >>) >>))
    /\ probe.state # TerminalStateDefault
    /\ Tokenize(probe.input) = Ok(<< KwTouch >>)
    /\ probe.ret.val.resp.output = << "touch: missing operand" >>

====
